---- MODULE Spec2Model ----
(***************************************************************************)
(* A model of the De Palma pipeline: the email-receiver Lambda, the        *)
(* orchestrator Lambda and the email-sender Lambda, together with the      *)
(* memory store, the Lambda asynchronous invocation queues and the SES     *)
(* transport they share.                                                   *)
(*                                                                         *)
(* Every action is one awaited call of a handler together with the         *)
(* synchronous code that follows it up to the next awaited call: the       *)
(* handlers are single-threaded async functions, so only the awaited       *)
(* calls interleave with other invocations.                                *)
(*                                                                         *)
(* Confidences are percentages (0.85 is 85).                               *)
(***************************************************************************)
EXTENDS Integers, Sequences, FiniteSets, Bags, TLC

VARIABLES
    tasks,        \* memory store: Task id -> stored Task row
    decisions,    \* memory store: the stored Decisions, in store order
    messages,     \* memory store: Message id -> stored Message row
    orchQueue,    \* orchestrator events accepted by Lambda, not yet delivered
    senderQueue,  \* email-sender events accepted by Lambda (delivered at least once)
    receivers,    \* the email-receiver invocations, in order of invocation
    runs,         \* the orchestrator invocations, in order of invocation
    senders,      \* the email-sender invocations, in order of invocation
    sent,         \* the emails handed to SES and accepted by it, in order
    faults        \* number of awaited calls that have thrown so far

vars == <<tasks, decisions, messages, orchQueue, senderQueue, receivers, runs,
          senders, sent, faults>>

(***************************************************************************)
(* Bounds of the model.                                                    *)
(***************************************************************************)
\* SES events delivered to the email receiver.
MaxReceives == 2
\* Invocations of the orchestrator.
MaxRuns == 2
\* Invocations of the email sender (Lambda delivers a queued asynchronous
\* event at least once, so one event can be delivered more than once).
MaxSends == 2
\* Awaited calls that throw.
MaxFaults == 1
\* Invocations of the three handlers together, where they are invoked one at
\* a time.
MaxInvocations == 2

(***************************************************************************)
(* Values.                                                                 *)
(***************************************************************************)
\* JavaScript's undefined, for a string-valued field.
Undefined == "undefined"

\* The confidence stored when the recommendation carries none (0.8).
DefaultConfidence == 80

\* The roster returned by getTeamDataFromSheets.
getTeamDataFromSheets ==
    << [name |-> "Alex", email |-> "alex@team.com",
        skills |-> {"backend", "api", "docs"},
        currentWorkload |-> 30, availability |-> "available"],
       [name |-> "Sarah", email |-> "sarah@team.com",
        skills |-> {"mobile", "frontend", "api"},
        currentWorkload |-> 45, availability |-> "available"] >>

\* The inbound emails SES can deliver: message id -> sender and the task
\* request extracted from the subject.  "m1" asks for a skill one roster
\* entry (Sarah) holds, "m2" for one nobody holds.
InboundEmails ==
    [m \in {"m1", "m2"} |->
        [messageId |-> m,
         from |-> "requester@corp.com",
         to |-> <<"louie@depalma.work">>,
         skillsRequired |-> IF m = "m1" THEN {"mobile"} ELSE {"quantum"}]]

MessageIds == DOMAIN InboundEmails

\* The SES events (lists of records) delivered to the email receiver.
SESEvents == {<<"m1">>, <<"m2">>, <<"m1", "m2">>}

\* The assignee names the text generator can answer with; "Nobody" names no
\* roster entry.
ClaudeAssignees == {"Alex", "Sarah", "Nobody"}

\* The rationale text the text generator writes for the assignee it names.
ClaudeRationale(assignee) == "Assigned to " \o assignee

\* The answer of generateAssignment that names assignee a.
AssignmentDecision(a) == [assignee |-> a, rationale |-> ClaudeRationale(a)]

\* The orchestrator event built by processEmailRecord for one SES record.
OrchestratorEvent(m) ==
    [type |-> "email_received",
     hasData |-> TRUE, hasEmail |-> TRUE, hasTaskRequest |-> TRUE,
     hasMessage |-> TRUE,
     messageId |-> m,
     from |-> InboundEmails[m].from,
     skillsRequired |-> InboundEmails[m].skillsRequired,
     source |-> "email-receiver"]

\* Events handed to the orchestrator by other invokers: the other event
\* types, an unknown type, and email_received payloads with a part missing.
DirectEvents ==
    LET ok == [OrchestratorEvent("m1") EXCEPT !.source = "direct"]
    IN  { [ok EXCEPT !.type = "manual_task"],
          [ok EXCEPT !.type = "health_check"],
          [ok EXCEPT !.type = "unknown_type"],
          [ok EXCEPT !.hasData = FALSE, !.hasEmail = FALSE,
                     !.hasTaskRequest = FALSE, !.hasMessage = FALSE],
          [ok EXCEPT !.hasEmail = FALSE],
          [ok EXCEPT !.hasTaskRequest = FALSE],
          [ok EXCEPT !.hasMessage = FALSE] }

\* An identifier that is the same for every invocation of a Lambda.
uuidv4Repeated(lambda, n) == lambda \o "-uuid"

\* uuidv4(): a fresh identifier.  The n-th invocation of a Lambda draws the
\* identifier named after it, so that no two calls return the same one.
uuidv4(lambda, n) == lambda \o "-uuid-" \o ToString(n)

(***************************************************************************)
(* The memory store (MemoryService).                                       *)
(***************************************************************************)
\* put of a row under its key
Put(table, key, row) ==
    [k \in DOMAIN table \cup {key} |-> IF k = key THEN row ELSE table[k]]

\* storeActiveTask(task): the Task row is written under the Task id.
storeActiveTask(table, task) == Put(table, task.id, task)

\* storeMessage(message): the Message row is written under the Message id.
storeMessage(table, message) == Put(table, message.id, message)

\* storeDecision(decision): the Decision is appended to the ledger.
storeDecision(ledger, decision) == Append(ledger, decision)

\* buildMemoryContext(): the snapshot of the store handed to the text
\* generator: the recent messages and the tasks not in a terminal state (by
\* their ids).
buildMemoryContext ==
    [recentMessages |-> DOMAIN messages,
     activeTasks |-> {t \in DOMAIN tasks :
                        tasks[t].status \notin {"completed", "cancelled"}}]

NoContext == [recentMessages |-> {}, activeTasks |-> {}]

(***************************************************************************)
(* The orchestrator.                                                       *)
(***************************************************************************)
\* getSchedulerRecommendation(task, teamData): the first roster entry, with
\* the second as the alternative.
getSchedulerRecommendation(task, teamData) ==
    [assignment |-> [assignee |-> teamData[1].name, confidence |-> 85,
                     rationale |-> "Best skill match and lowest workload"],
     alternatives |-> << [assignee |-> teamData[2].name, confidence |-> 65,
                          rationale |-> "Has some relevant skills but higher workload"] >>]

\* A lookup that answers the first roster entry's address for any name.
findTeamMemberEmailFirst(name, teamData) == teamData[1].email

\* findTeamMemberEmail(name, teamData)
findTeamMemberEmail(name, teamData) ==
    IF \E i \in DOMAIN teamData : teamData[i].name = name
    THEN LET i == CHOOSE j \in DOMAIN teamData :
                    /\ teamData[j].name = name
                    /\ \A k \in DOMAIN teamData : teamData[k].name = name => j <= k
         IN  teamData[i].email
    ELSE Undefined

\* What the task-scheduler behind getSchedulerRecommendation can do when it is
\* called: answer as the mock in the source does, not answer in time, or
\* answer with a recommendation that lacks the assignment, lacks its
\* confidence, or carries a confidence of 0 or of 1.5.
OptimizerOutcomes ==
    {"mock", "timeout", "noAssignment", "noConfidence", "zeroConfidence",
     "highConfidence"}

\* The outcomes of the successive calls of the task-scheduler in one run.
MockOptimizer == <<"mock">>

OptimizerScripts ==
    {MockOptimizer, <<"timeout", "timeout", "mock">>,
     <<"noAssignment", "noAssignment", "noAssignment">>,
     <<"noConfidence">>, <<"zeroConfidence">>, <<"highConfidence">>}

\* The recommendation the task-scheduler answers with.
OptimizerResponse(outcome, task, teamData) ==
    LET mock == getSchedulerRecommendation(task, teamData)
    IN  CASE outcome = "noAssignment"   -> [alternatives |-> mock.alternatives]
          [] outcome = "noConfidence"   ->
                [assignment |-> [assignee |-> mock.assignment.assignee,
                                 rationale |-> mock.assignment.rationale],
                 alternatives |-> mock.alternatives]
          [] outcome = "zeroConfidence" ->
                [mock EXCEPT !.assignment.confidence = 0]
          [] outcome = "highConfidence" ->
                [mock EXCEPT !.assignment.confidence = 150]
          [] OTHER                      -> mock

\* schedulerRecommendation.assignment?.confidence || 0.8
DecisionConfidence(recommendation) ==
    IF "assignment" \notin DOMAIN recommendation
    THEN DefaultConfidence
    ELSE IF "confidence" \notin DOMAIN recommendation.assignment
    THEN DefaultConfidence
    ELSE IF recommendation.assignment.confidence = 0
    THEN DefaultConfidence
    ELSE recommendation.assignment.confidence

\* The Task object of a run before line 135.
NoTask ==
    [id |-> Undefined, status |-> Undefined, assignedTo |-> Undefined,
     requestedBy |-> Undefined, skillsRequired |-> {}]

\* An order in which the Decision is stored before the Task is written as
\* assigned.
StepAfterSwapped(step) ==
    CASE step = "build"         -> "storePending"
      [] step = "storePending"  -> "claude"
      [] step = "claude"        -> "storeDecision"
      [] step = "storeDecision" -> "storeAssigned"
      [] step = "storeAssigned" -> "dispatch"
      [] step = "dispatch"      -> "done"

\* An order in which the Decision is never stored.
StepAfterSkipDecision(step) ==
    CASE step = "build"         -> "storePending"
      [] step = "storePending"  -> "claude"
      [] step = "claude"        -> "storeAssigned"
      [] step = "storeAssigned" -> "dispatch"
      [] step = "storeDecision" -> "dispatch"
      [] step = "dispatch"      -> "done"

\* The order of the awaited calls of handleEmailReceived: the call that
\* follows each one.
StepAfter(step) ==
    CASE step = "build"         -> "storePending"
      [] step = "storePending"  -> "claude"
      [] step = "claude"        -> "storeAssigned"
      [] step = "storeAssigned" -> "storeDecision"
      [] step = "storeDecision" -> "dispatch"
      [] step = "dispatch"      -> "done"

\* The awaited calls of the orchestrator that can throw: the store, the text
\* generator and the Lambda client.  The roster and the scheduler are local
\* mock data.
OrchestratorCalls ==
    {"build", "storePending", "claude", "storeAssigned", "storeDecision",
     "dispatch", "stats"}

\* A run that returned: handler's try block returns the handler's result,
\* its catch block returns statusCode 500.
\* The MemoryContext is a local of the invocation: it is gone when the
\* handler has returned.
Returned(run, code) ==
    [run EXCEPT !.pc = "done", !.statusCode = code, !.memoryContext = NoContext]

\* A handler without its catch block: the error leaves the handler and the
\* invocation has no response.
ThrownToInvoker(run, step) ==
    [run EXCEPT !.pc = "done", !.statusCode = 0, !.failedAt = step,
                !.memoryContext = NoContext]

Thrown(run, step) ==
    [run EXCEPT !.pc = "done", !.statusCode = 500, !.failedAt = step,
                !.memoryContext = NoContext]

\* The run after its awaited call `step` has returned: the next call is
\* issued; the dispatch is issued only when the assignee has an address.
Continue(run, step) ==
    LET next == StepAfter(step)
        done == [run EXCEPT !.steps = @ \cup {step}]
    IN  IF next = "done"
        THEN Returned(done, 200)
        ELSE IF /\ next = "dispatch"
                /\ findTeamMemberEmail(run.assignmentDecision.assignee,
                                       getTeamDataFromSheets) = Undefined
             THEN Returned(done, 200)
             ELSE [done EXCEPT !.pc = next]

\* Has an earlier run for the same message stored its Decision and then
\* failed to queue the notification?
FailedAfterRecorded(e) ==
    \E j \in DOMAIN runs :
        /\ runs[j].event.type = "email_received"
        /\ runs[j].event.messageId = e.messageId
        /\ runs[j].statusCode = 500
        /\ "storeDecision" \in runs[j].steps
        /\ "dispatch" \notin runs[j].steps

\* handler(event): the switch on the event type, and handleEmailReceived up
\* to its first awaited call.
handler(e) ==
    LET run == [event |-> e, pc |-> "entry", task |-> NoTask,
                memoryContext |-> NoContext,
                assignmentDecision |-> [assignee |-> Undefined,
                                       rationale |-> Undefined],
                confidence |-> 0, optimizer |-> MockOptimizer,
                statusCode |-> 0, failedAt |-> "none", steps |-> {},
                rerun |-> e.type = "email_received" /\ FailedAfterRecorded(e)]
    IN  CASE e.type = "email_received" ->
                IF ~e.hasData \/ ~e.hasTaskRequest
                THEN Thrown(run, "entry")
                ELSE [run EXCEPT !.pc = "build"]
          [] e.type = "manual_task"  -> Returned(run, 200)
          [] e.type = "health_check" -> [run EXCEPT !.pc = "stats"]
          [] OTHER                   -> Thrown(run, "entry")

\* One invocation of the orchestrator's handler with event e.
OrchestratorInvocation(e) ==
    /\ Len(runs) < MaxRuns
    /\ runs' = Append(runs, handler(e))
    /\ UNCHANGED <<tasks, decisions, messages, senderQueue, receivers,
                   senders, sent, faults>>

\* Lambda delivers an orchestrator event queued by the email receiver.
OrchestratorInvoked ==
    \E e \in BagToSet(orchQueue) :
        /\ OrchestratorInvocation(e)
        /\ orchQueue' = orchQueue (-) SetToBag({e})

\* An invoker hands an event to the orchestrator itself.
OrchestratorInvokedDirectly ==
    \E e \in DirectEvents \cup {OrchestratorEvent(m) : m \in MessageIds} :
        /\ OrchestratorInvocation(e)
        /\ UNCHANGED orchQueue

\* An invoker hands an email_received event to an orchestrator whose
\* task-scheduler behaves as the script says.
OrchestratorInvokedWithOptimizer ==
    \E m \in MessageIds, script \in OptimizerScripts :
        /\ Len(runs) < MaxRuns
        /\ runs' = Append(runs, [handler(OrchestratorEvent(m))
                                   EXCEPT !.optimizer = script])
        /\ UNCHANGED <<tasks, decisions, messages, orchQueue, senderQueue,
                       receivers, senders, sent, faults>>

\* await memoryService.buildMemoryContext(), then the Task object is built.
BuildMemoryContext(i) ==
    LET run == runs[i]
        e == run.event
        task == [id |-> uuidv4("orchestrator", i), status |-> "pending",
                 assignedTo |-> Undefined, requestedBy |-> e.from,
                 skillsRequired |-> e.skillsRequired]
        read == [run EXCEPT !.memoryContext = buildMemoryContext]
    IN  /\ run.pc = "build"
        /\ runs' = [runs EXCEPT ![i] =
                      IF ~e.hasEmail
                      THEN Thrown([read EXCEPT !.steps = @ \cup {"build"}], "task")
                      ELSE Continue([read EXCEPT !.task = task], "build")]
        /\ UNCHANGED <<tasks, decisions, messages, orchQueue, senderQueue,
                       receivers, senders, sent, faults>>

\* A run that reads the MemoryContext again after it has stored its pending
\* Task.
StorePendingTaskAndRebuild(i) ==
    LET run == runs[i]
        stored == storeActiveTask(tasks, run.task)
    IN  /\ run.pc = "storePending"
        /\ tasks' = stored
        /\ runs' = [runs EXCEPT ![i] =
              Continue([run EXCEPT !.memoryContext.activeTasks = DOMAIN stored],
                       "storePending")]
        /\ UNCHANGED <<decisions, messages, orchQueue, senderQueue, receivers,
                       senders, sent, faults>>

\* await memoryService.storeActiveTask(task), status pending; then the roster
\* and the scheduler recommendation are fetched and the text generator called.
StorePendingTask(i) ==
    LET run == runs[i]
    IN  /\ run.pc = "storePending"
        /\ tasks' = storeActiveTask(tasks, run.task)
        /\ runs' = [runs EXCEPT ![i] =
              IF Head(run.optimizer) = "timeout"
              THEN Thrown([run EXCEPT !.steps = @ \cup {"storePending"}],
                          "scheduler")
              ELSE Continue([run EXCEPT !.confidence = DecisionConfidence(
                      OptimizerResponse(Head(run.optimizer), run.task,
                                        getTeamDataFromSheets))],
                      "storePending")]
        /\ UNCHANGED <<decisions, messages, orchQueue, senderQueue, receivers,
                       senders, sent, faults>>

\* await claudeClient.generateAssignment(task.description, teamData,
\* schedulerRecommendation, memoryContext), the last use of memoryContext;
\* then the Task object is updated with the assignee and status assigned.
GenerateAssignment(i) ==
    LET run == runs[i]
    IN  /\ run.pc = "claude"
        /\ \E a \in ClaudeAssignees :
              runs' = [runs EXCEPT ![i] =
                  Continue([run EXCEPT !.assignmentDecision = AssignmentDecision(a),
                                       !.memoryContext = NoContext,
                                       !.task.assignedTo = a,
                                       !.task.status = "assigned"], "claude")]
        /\ UNCHANGED <<tasks, decisions, messages, orchQueue, senderQueue,
                       receivers, senders, sent, faults>>

\* await memoryService.storeActiveTask(task), status assigned.
StoreAssignedTask(i) ==
    LET run == runs[i]
    IN  /\ run.pc = "storeAssigned"
        /\ tasks' = storeActiveTask(tasks, run.task)
        /\ runs' = [runs EXCEPT ![i] = Continue(run, "storeAssigned")]
        /\ UNCHANGED <<decisions, messages, orchQueue, senderQueue, receivers,
                       senders, sent, faults>>

\* await memoryService.storeDecision({...})
StoreDecision(i) ==
    LET run == runs[i]
        decision == [taskId |-> run.task.id,
                     assignedTo |-> run.assignmentDecision.assignee,
                     rationale |-> run.assignmentDecision.rationale,
                     confidence |-> run.confidence]
    IN  /\ run.pc = "storeDecision"
        /\ decisions' = storeDecision(decisions, decision)
        /\ runs' = [runs EXCEPT ![i] = Continue(run, "storeDecision")]
        /\ UNCHANGED <<tasks, messages, orchQueue, senderQueue, receivers,
                       senders, sent, faults>>

\* The event the orchestrator's sendAssignmentEmail hands to Lambda.
EmailSenderEvent(assigneeEmail, ccEmails, taskId) ==
    [type |-> "assignment_email",
     to |-> <<assigneeEmail>> \o ccEmails,
     taskId |-> taskId]

\* await sendAssignmentEmail({...}) of the orchestrator: the event is queued
\* for the email sender, and the run returns 200.
QueueAssignmentEmail(i) ==
    LET run == runs[i]
        assigneeEmail == findTeamMemberEmail(run.assignmentDecision.assignee,
                                             getTeamDataFromSheets)
    IN  /\ run.pc = "dispatch"
        /\ senderQueue' = senderQueue \cup
              {EmailSenderEvent(assigneeEmail, <<run.event.from>>, run.task.id)}
        /\ runs' = [runs EXCEPT ![i] = Continue(run, "dispatch")]
        /\ UNCHANGED <<tasks, decisions, messages, orchQueue, receivers,
                       senders, sent, faults>>

\* A health check that leaves a row in the store.
HealthCheckRecording(i) ==
    LET run == runs[i]
    IN  /\ run.pc = "stats"
        /\ messages' = storeMessage(messages,
              [id |-> "stats", from |-> Undefined, to |-> Undefined,
               type |-> "stats"])
        /\ runs' = [runs EXCEPT ![i] =
                      Returned([run EXCEPT !.steps = @ \cup {"stats"}], 200)]
        /\ UNCHANGED <<tasks, decisions, orchQueue, senderQueue,
                       receivers, senders, sent, faults>>

\* handleHealthCheck: await memoryService.getMemoryStats(), a read.
HealthCheck(i) ==
    LET run == runs[i]
    IN  /\ run.pc = "stats"
        /\ runs' = [runs EXCEPT ![i] =
                      Returned([run EXCEPT !.steps = @ \cup {"stats"}], 200)]
        /\ UNCHANGED <<tasks, decisions, messages, orchQueue, senderQueue,
                       receivers, senders, sent, faults>>

\* An awaited call of the orchestrator throws: handler's catch returns 500.
OrchestratorCallThrows(i) ==
    LET run == runs[i]
    IN  /\ run.pc \in OrchestratorCalls
        /\ faults < MaxFaults
        /\ faults' = faults + 1
        /\ runs' = [runs EXCEPT ![i] = Thrown(run, run.pc)]
        /\ UNCHANGED <<tasks, decisions, messages, orchQueue, senderQueue,
                       receivers, senders, sent>>

\* An awaited call of the orchestrator never settles: no call is given a
\* timeout, so the run stays at its await.
CallNeverResponds(i) ==
    LET run == runs[i]
    IN  /\ run.pc \in OrchestratorCalls
        /\ faults < MaxFaults
        /\ faults' = faults + 1
        /\ runs' = [runs EXCEPT ![i].pc = "hung"]
        /\ UNCHANGED <<tasks, decisions, messages, orchQueue, senderQueue,
                       receivers, senders, sent>>

(***************************************************************************)
(* The email receiver.                                                     *)
(***************************************************************************)
\* The Message built by processEmailRecord for the record with id m.
IncomingMessage(m) ==
    [id |-> m, from |-> InboundEmails[m].from, to |-> InboundEmails[m].to[1],
     type |-> "incoming"]

\* An order in which the orchestrator is invoked before the Message is stored.
RecordStepAfterInvokeFirst(step) ==
    CASE step = "begin"        -> "invoke"
      [] step = "invoke"       -> "storeMessage"
      [] step = "storeMessage" -> "end"

\* The order of the awaited calls of processEmailRecord: the call that
\* follows each one.
RecordStepAfter(step) ==
    CASE step = "begin"        -> "storeMessage"
      [] step = "storeMessage" -> "invoke"
      [] step = "invoke"       -> "end"

\* The receiver after its awaited call `step` has returned: the next call of
\* processEmailRecord is issued; after the last one the loop of handler goes
\* to the next record, or handler returns 200.
ReceiverContinue(rcv, step) ==
    LET next == RecordStepAfter(step)
    IN  IF next # "end"
        THEN [rcv EXCEPT !.pc = next]
        ELSE IF rcv.index = Len(rcv.records)
             THEN [rcv EXCEPT !.pc = "done", !.statusCode = 200]
             ELSE [rcv EXCEPT !.pc = RecordStepAfter("begin"), !.index = @ + 1]

\* SES delivers an event: one invocation of the receiver's handler.
ReceiverInvoked ==
    \E ev \in SESEvents :
        /\ Len(receivers) < MaxReceives
        /\ receivers' = Append(receivers,
              [records |-> ev, index |-> 1, pc |-> RecordStepAfter("begin"),
               statusCode |-> 0, failedAt |-> "none",
               stored |-> <<>>, invoked |-> <<>>])
        /\ UNCHANGED <<tasks, decisions, messages, orchQueue, senderQueue,
                       runs, senders, sent, faults>>

\* processEmailRecord: await memoryService.storeMessage(message)
ReceiverStoreMessage(i) ==
    LET rcv == receivers[i]
    IN  /\ rcv.pc = "storeMessage"
        /\ messages' = storeMessage(messages, IncomingMessage(rcv.records[rcv.index]))
        /\ receivers' = [receivers EXCEPT ![i] =
              ReceiverContinue(
                  [rcv EXCEPT !.stored = Append(@, rcv.records[rcv.index])],
                  "storeMessage")]
        /\ UNCHANGED <<tasks, decisions, orchQueue, senderQueue, runs,
                       senders, sent, faults>>

\* processEmailRecord: await invokeOrchestrator(orchestratorEvent); then the
\* loop of handler goes to the next record, or handler returns 200.
invokeOrchestrator(i) ==
    LET rcv == receivers[i]
    IN  /\ rcv.pc = "invoke"
        /\ orchQueue' = orchQueue (+)
                          SetToBag({OrchestratorEvent(rcv.records[rcv.index])})
        /\ receivers' = [receivers EXCEPT ![i] =
              ReceiverContinue(
                  [rcv EXCEPT !.invoked = Append(@, rcv.records[rcv.index])],
                  "invoke")]
        /\ UNCHANGED <<tasks, decisions, messages, senderQueue, runs,
                       senders, sent, faults>>

\* A receiver that gives up the record whose call threw and goes on with the
\* next one.
ReceiverCallThrowsAndGoesOn(i) ==
    LET rcv == receivers[i]
        failed == [rcv EXCEPT !.failedAt = rcv.pc]
    IN  /\ rcv.pc \in {"storeMessage", "invoke"}
        /\ faults < MaxFaults
        /\ faults' = faults + 1
        /\ receivers' = [receivers EXCEPT ![i] =
              IF rcv.index = Len(rcv.records)
              THEN [failed EXCEPT !.pc = "done", !.statusCode = 200]
              ELSE [failed EXCEPT !.pc = RecordStepAfter("begin"),
                                  !.index = @ + 1]]
        /\ UNCHANGED <<tasks, decisions, messages, orchQueue, senderQueue,
                       runs, senders, sent>>

\* An awaited call of the receiver throws: handler's catch returns 500.
ReceiverCallThrows(i) ==
    LET rcv == receivers[i]
    IN  /\ rcv.pc \in {"storeMessage", "invoke"}
        /\ faults < MaxFaults
        /\ faults' = faults + 1
        /\ receivers' = [receivers EXCEPT ![i] =
                            [rcv EXCEPT !.pc = "done", !.statusCode = 500,
                                        !.failedAt = rcv.pc]]
        /\ UNCHANGED <<tasks, decisions, messages, orchQueue, senderQueue,
                       runs, senders, sent>>

(***************************************************************************)
(* The email sender.                                                       *)
(***************************************************************************)
\* The events an invoker can hand to the email sender itself.
DirectSenderEvents ==
    { EmailSenderEvent("alex@team.com", <<"requester@corp.com">>,
                       uuidv4("orchestrator", 1)),
      [EmailSenderEvent("sarah@team.com", <<"requester@corp.com">>,
                        uuidv4("orchestrator", 2))
          EXCEPT !.type = "notification_email"],
      [EmailSenderEvent("alex@team.com", <<>>, uuidv4("orchestrator", 1))
          EXCEPT !.type = "reminder_email"] }

\* An order in which the outgoing Message is stored before the email is sent.
SenderStepAfterStoreFirst(step) ==
    CASE step = "begin"        -> "storeMessage"
      [] step = "storeMessage" -> "send"
      [] step = "send"         -> "end"

\* The order of the awaited calls of sendAssignmentEmail and
\* sendNotificationEmail: the call that follows each one.
SenderStepAfter(step) ==
    CASE step = "begin"        -> "send"
      [] step = "send"         -> "storeMessage"
      [] step = "storeMessage" -> "end"

\* The sender after its awaited call `step` has returned: the next call is
\* issued, or 200 is returned.
SenderContinue(snd, step) ==
    LET next == SenderStepAfter(step)
    IN  IF next = "end"
        THEN [snd EXCEPT !.pc = "done", !.statusCode = 200]
        ELSE [snd EXCEPT !.pc = next]

\* One invocation of the sender's handler with event e: the switch on the
\* event type.
SenderInvocation(e) ==
    /\ Len(senders) < MaxSends
    /\ senders' = Append(senders,
          IF e.type \in {"assignment_email", "notification_email"}
          THEN [event |-> e, pc |-> SenderStepAfter("begin"),
                statusCode |-> 0, failedAt |-> "none"]
          ELSE [event |-> e, pc |-> "done", statusCode |-> 500,
                failedAt |-> "type"])
    /\ UNCHANGED <<tasks, decisions, messages, orchQueue, senderQueue,
                   receivers, runs, sent, faults>>

\* Lambda delivers an event queued by the orchestrator.
SenderInvoked == \E e \in senderQueue : SenderInvocation(e)

\* An invoker hands an event to the email sender itself.
SenderInvokedDirectly == \E e \in DirectSenderEvents : SenderInvocation(e)

\* sendAssignmentEmail of the sender: await sesService.sendAssignmentEmail(
\* 'Unknown', to[0], to.slice(1), subject, body, taskId)
sendAssignmentEmail(i) ==
    LET snd == senders[i]
        emailData == snd.event
    IN  /\ snd.pc = "send"
        /\ snd.event.type = "assignment_email"
        /\ sent' = Append(sent, [type |-> "assignment_email",
                                 assigneeEmail |-> emailData.to[1],
                                 ccEmails |-> Tail(emailData.to),
                                 taskId |-> snd.event.taskId])
        /\ senders' = [senders EXCEPT ![i] = SenderContinue(snd, "send")]
        /\ UNCHANGED <<tasks, decisions, messages, orchQueue, senderQueue,
                       receivers, runs, faults>>

\* sendNotificationEmail: await sesService.sendNotificationEmail(to,
\* subject, body)
sendNotificationEmail(i) ==
    LET snd == senders[i]
        emailData == snd.event
    IN  /\ snd.pc = "send"
        /\ snd.event.type = "notification_email"
        /\ sent' = Append(sent, [type |-> "notification_email",
                                 assigneeEmail |-> emailData.to[1],
                                 ccEmails |-> Tail(emailData.to),
                                 taskId |-> Undefined])
        /\ senders' = [senders EXCEPT ![i] = SenderContinue(snd, "send")]
        /\ UNCHANGED <<tasks, decisions, messages, orchQueue, senderQueue,
                       receivers, runs, faults>>

\* sendAssignmentEmail of the sender: await memoryService.storeMessage(
\* sentMessage), then return 200.
SenderStoreMessage(i) ==
    LET snd == senders[i]
        sentMessage == [id |-> uuidv4("email-sender", i),
                        from |-> "louie@depalma.work",
                        to |-> snd.event.to[1], type |-> "outgoing"]
    IN  /\ snd.pc = "storeMessage"
        /\ messages' = storeMessage(messages, sentMessage)
        /\ senders' = [senders EXCEPT ![i] = SenderContinue(snd, "storeMessage")]
        /\ UNCHANGED <<tasks, decisions, orchQueue, senderQueue, receivers,
                       runs, sent, faults>>

\* An awaited call of the sender throws: handler's catch returns 500.
SenderCallThrows(i) ==
    LET snd == senders[i]
    IN  /\ snd.pc \in {"send", "storeMessage"}
        /\ faults < MaxFaults
        /\ faults' = faults + 1
        /\ senders' = [senders EXCEPT ![i] =
                          [snd EXCEPT !.pc = "done", !.statusCode = 500,
                                      !.failedAt = snd.pc]]
        /\ UNCHANGED <<tasks, decisions, messages, orchQueue, senderQueue,
                       receivers, runs, sent>>

(***************************************************************************)
(* The specification.                                                      *)
(***************************************************************************)
Init ==
    /\ tasks = <<>>
    /\ decisions = <<>>
    /\ messages = <<>>
    /\ orchQueue = EmptyBag
    /\ senderQueue = {}
    /\ receivers = <<>>
    /\ runs = <<>>
    /\ senders = <<>>
    /\ sent = <<>>
    /\ faults = 0

\* The orchestrator alone, invoked with any of its events.
NextOrchestrator ==
    \/ OrchestratorInvokedDirectly
    \/ \E i \in DOMAIN runs : BuildMemoryContext(i)
    \/ \E i \in DOMAIN runs : StorePendingTask(i)
    \/ \E i \in DOMAIN runs : GenerateAssignment(i)
    \/ \E i \in DOMAIN runs : StoreAssignedTask(i)
    \/ \E i \in DOMAIN runs : StoreDecision(i)
    \/ \E i \in DOMAIN runs : QueueAssignmentEmail(i)
    \/ \E i \in DOMAIN runs : HealthCheck(i)
    \/ \E i \in DOMAIN runs : OrchestratorCallThrows(i)

SpecOrchestrator == Init /\ [][NextOrchestrator]_vars

\* The orchestrator with a task-scheduler that can fail or answer badly.
NextCollaborators ==
    \/ OrchestratorInvokedWithOptimizer
    \/ \E i \in DOMAIN runs : BuildMemoryContext(i)
    \/ \E i \in DOMAIN runs : StorePendingTask(i)
    \/ \E i \in DOMAIN runs : GenerateAssignment(i)
    \/ \E i \in DOMAIN runs : StoreAssignedTask(i)
    \/ \E i \in DOMAIN runs : StoreDecision(i)
    \/ \E i \in DOMAIN runs : QueueAssignmentEmail(i)
    \/ \E i \in DOMAIN runs : OrchestratorCallThrows(i)

SpecCollaborators == Init /\ [][NextCollaborators]_vars

\* The orchestrator with collaborators that may never respond; a call that
\* has settled is resumed by the event loop.
NextHanging ==
    \/ OrchestratorInvokedDirectly
    \/ \E i \in DOMAIN runs : BuildMemoryContext(i)
    \/ \E i \in DOMAIN runs : StorePendingTask(i)
    \/ \E i \in DOMAIN runs : GenerateAssignment(i)
    \/ \E i \in DOMAIN runs : StoreAssignedTask(i)
    \/ \E i \in DOMAIN runs : StoreDecision(i)
    \/ \E i \in DOMAIN runs : QueueAssignmentEmail(i)
    \/ \E i \in DOMAIN runs : HealthCheck(i)
    \/ \E i \in DOMAIN runs : OrchestratorCallThrows(i)
    \/ \E i \in DOMAIN runs : CallNeverResponds(i)

SpecHanging == Init /\ [][NextHanging]_vars /\ WF_vars(NextHanging)

\* The email sender alone, invoked with any of its events.
NextSender ==
    \/ SenderInvokedDirectly
    \/ \E i \in DOMAIN senders : sendAssignmentEmail(i)
    \/ \E i \in DOMAIN senders : sendNotificationEmail(i)
    \/ \E i \in DOMAIN senders : SenderStoreMessage(i)
    \/ \E i \in DOMAIN senders : SenderCallThrows(i)

SpecSender == Init /\ [][NextSender]_vars

\* The whole pipeline: SES events in, emails out.
Next ==
    \/ ReceiverInvoked
    \/ \E i \in DOMAIN receivers : ReceiverStoreMessage(i)
    \/ \E i \in DOMAIN receivers : invokeOrchestrator(i)
    \/ \E i \in DOMAIN receivers : ReceiverCallThrows(i)
    \/ OrchestratorInvoked
    \/ \E i \in DOMAIN runs : BuildMemoryContext(i)
    \/ \E i \in DOMAIN runs : StorePendingTask(i)
    \/ \E i \in DOMAIN runs : GenerateAssignment(i)
    \/ \E i \in DOMAIN runs : StoreAssignedTask(i)
    \/ \E i \in DOMAIN runs : StoreDecision(i)
    \/ \E i \in DOMAIN runs : QueueAssignmentEmail(i)
    \/ \E i \in DOMAIN runs : OrchestratorCallThrows(i)
    \/ SenderInvoked
    \/ \E i \in DOMAIN senders : sendAssignmentEmail(i)
    \/ \E i \in DOMAIN senders : SenderStoreMessage(i)
    \/ \E i \in DOMAIN senders : SenderCallThrows(i)

Spec == Init /\ [][Next]_vars

\* The email receiver and the orchestrator's runs up to the call of the text
\* generator, which is given the MemoryContext.
NextIngestion ==
    \/ ReceiverInvoked
    \/ \E i \in DOMAIN receivers : ReceiverStoreMessage(i)
    \/ \E i \in DOMAIN receivers : invokeOrchestrator(i)
    \/ \E i \in DOMAIN receivers : ReceiverCallThrows(i)
    \/ OrchestratorInvoked
    \/ \E i \in DOMAIN runs : BuildMemoryContext(i)
    \/ \E i \in DOMAIN runs : StorePendingTask(i)

SpecIngestion == Init /\ [][NextIngestion]_vars

\* No invocation of any of the three handlers is under way, and one more may
\* start.
Idle ==
    /\ Len(receivers) + Len(runs) + Len(senders) < MaxInvocations
    /\ \A i \in DOMAIN receivers : receivers[i].pc = "done"
    /\ \A i \in DOMAIN runs : runs[i].pc = "done"
    /\ \A i \in DOMAIN senders : senders[i].pc = "done"

\* The three handlers, each invoked with any of its events, one invocation
\* at a time: what a handler returns depends on its own event and calls only.
NextHandlers ==
    \/ Idle /\ ReceiverInvoked
    \/ Idle /\ OrchestratorInvokedDirectly
    \/ Idle /\ SenderInvokedDirectly
    \/ \E i \in DOMAIN receivers : ReceiverStoreMessage(i)
    \/ \E i \in DOMAIN receivers : invokeOrchestrator(i)
    \/ \E i \in DOMAIN receivers : ReceiverCallThrows(i)
    \/ \E i \in DOMAIN runs : BuildMemoryContext(i)
    \/ \E i \in DOMAIN runs : StorePendingTask(i)
    \/ \E i \in DOMAIN runs : GenerateAssignment(i)
    \/ \E i \in DOMAIN runs : StoreAssignedTask(i)
    \/ \E i \in DOMAIN runs : StoreDecision(i)
    \/ \E i \in DOMAIN runs : QueueAssignmentEmail(i)
    \/ \E i \in DOMAIN runs : HealthCheck(i)
    \/ \E i \in DOMAIN runs : OrchestratorCallThrows(i)
    \/ \E i \in DOMAIN senders : sendAssignmentEmail(i)
    \/ \E i \in DOMAIN senders : sendNotificationEmail(i)
    \/ \E i \in DOMAIN senders : SenderStoreMessage(i)
    \/ \E i \in DOMAIN senders : SenderCallThrows(i)

SpecHandlers == Init /\ [][NextHandlers]_vars

(***************************************************************************)
(* What the claims speak of.                                               *)
(***************************************************************************)
\* The runs handling an email_received event whose dedup key (the id of the
\* originating Message) is m.
RunsFor(m) ==
    {j \in DOMAIN runs : /\ runs[j].event.type = "email_received"
                         /\ runs[j].event.hasMessage
                         /\ runs[j].event.messageId = m}

\* The stored Tasks, stored Decisions and accepted sends that come from m.
TasksFor(m) == {runs[j].task.id : j \in RunsFor(m)} \cap DOMAIN tasks

DecisionsFor(m) ==
    {i \in DOMAIN decisions :
        \E j \in RunsFor(m) : decisions[i].taskId = runs[j].task.id}

SendsFor(m) ==
    {i \in DOMAIN sent : \E j \in RunsFor(m) : sent[i].taskId = runs[j].task.id}

DecisionsOfTask(t) == {i \in DOMAIN decisions : decisions[i].taskId = t}

SendsOfTask(t) ==
    {i \in DOMAIN sent : sent[i].type = "assignment_email" /\ sent[i].taskId = t}

\* Has the run called the text generator?
CalledTextGenerator(run) ==
    run.pc = "claude" \/ "claude" \in run.steps \/ run.failedAt = "claude"

\* Does a roster entry hold every required capability?
Qualified(skillsRequired) ==
    \E i \in DOMAIN getTeamDataFromSheets :
        skillsRequired \subseteq getTeamDataFromSheets[i].skills

\* The position of a status in pending -> assigned -> {completed, cancelled}.
StatusRank(status) ==
    CASE status = "pending" -> 1
      [] status = "assigned" -> 2
      [] OTHER -> 3

(***************************************************************************)
(* C1: at most one Task is ever stored per dedup key (the id of the        *)
(* originating Message), whatever sequence of email_received events is     *)
(* handled.                                                                *)
(***************************************************************************)
C1_OneTaskPerDedupKey ==
    \A m \in MessageIds : Cardinality(TasksFor(m)) <= 1

(***************************************************************************)
(* C2: two invocations for the same dedup key that are in flight at the    *)
(* same time hold the same Task id, and between them one Task is stored.   *)
(***************************************************************************)
C2_ConcurrentRunsShareTask ==
    \A m \in MessageIds : \A j, k \in RunsFor(m) :
        ( /\ j # k
          /\ runs[j].pc # "done" /\ runs[k].pc # "done"
          /\ runs[j].task.id # Undefined /\ runs[k].task.id # Undefined )
        => /\ runs[j].task.id = runs[k].task.id
           /\ Cardinality(TasksFor(m)) <= 1

(***************************************************************************)
(* C3: when the same inbound message has gone twice through the whole      *)
(* pipeline without a failure, the end state holds exactly one Task,       *)
(* one Decision and one outbound send for it.                              *)
(***************************************************************************)
\* Every invocation has returned, every queued event has been delivered.
Quiescent ==
    /\ \A i \in DOMAIN receivers : receivers[i].pc = "done"
    /\ \A j \in DOMAIN runs : runs[j].pc = "done"
    /\ \A k \in DOMAIN senders : senders[k].pc = "done"
    /\ orchQueue = EmptyBag
    /\ \A e \in senderQueue : \E k \in DOMAIN senders : senders[k].event = e

DeliveredTwice(m) ==
    /\ Len(receivers) = 2
    /\ \A i \in DOMAIN receivers : receivers[i].records = <<m>>

C3_DuplicateDeliveryOneOutcome ==
    \A m \in MessageIds :
        ( /\ DeliveredTwice(m)
          /\ Quiescent
          /\ faults = 0
          /\ \A j \in RunsFor(m) : runs[j].assignmentDecision.assignee = "Alex" )
        => /\ Cardinality(TasksFor(m)) = 1
           /\ Cardinality(DecisionsFor(m)) = 1
           /\ Cardinality(SendsFor(m)) = 1

(***************************************************************************)
(* C4: in every reachable state, a notification is queued only for a Task  *)
(* whose Decision is stored, and a Decision is stored only for a Task      *)
(* whose stored status is assigned: the run's effects are ordered Task     *)
(* assigned, Decision stored, notification queued.                         *)
(***************************************************************************)
C4_StatusThenDecisionThenDispatch ==
    /\ \A e \in senderQueue : DecisionsOfTask(e.taskId) # {}
    /\ \A i \in DOMAIN decisions :
          /\ decisions[i].taskId \in DOMAIN tasks
          /\ tasks[decisions[i].taskId].status = "assigned"

\* A notification has been queued by a run.
C4_Witness ==
    \E j \in DOMAIN runs :
        /\ "dispatch" \in runs[j].steps
        /\ \E e \in senderQueue : e.taskId = runs[j].task.id

(***************************************************************************)
(* C5: a run that failed before its Decision was stored leaves its stored  *)
(* Task with status pending.                                               *)
(***************************************************************************)
C5_FailureBeforeRecordedLeavesPending ==
    \A j \in DOMAIN runs :
        ( /\ runs[j].statusCode = 500
          /\ "storeDecision" \notin runs[j].steps
          /\ runs[j].task.id \in DOMAIN tasks )
        => tasks[runs[j].task.id].status = "pending"

(***************************************************************************)
(* C6: a run started for an event after an earlier run for that event      *)
(* stored its Decision and failed before queueing the notification calls   *)
(* neither the optimizer nor the text generator and stores no Decision.    *)
(***************************************************************************)
C6_RerunOnlyDispatches ==
    \A j \in DOMAIN runs :
        runs[j].rerun =>
            /\ ~CalledTextGenerator(runs[j])
            /\ "storeDecision" \notin runs[j].steps

(***************************************************************************)
(* C7: no step replaces the stored status of a Task with an earlier one    *)
(* of pending -> assigned -> {completed, cancelled}, and no stored Task    *)
(* disappears.                                                             *)
(***************************************************************************)
C7_StatusMovesForward ==
    [][\A t \in DOMAIN tasks :
          /\ t \in DOMAIN tasks'
          /\ StatusRank(tasks'[t].status) >= StatusRank(tasks[t].status)]_vars

\* One Task has been moved to assigned while another is stored as pending.
C7_Witness ==
    \E t, u \in DOMAIN tasks :
        tasks[t].status = "assigned" /\ tasks[u].status = "pending"

(***************************************************************************)
(* C8: once a send of the notification of a Task has been confirmed (the   *)
(* sender returned 200 for it), no further dispatch of that notification   *)
(* adds an outbound send.                                                  *)
(***************************************************************************)
Confirmed(t) ==
    \E k \in DOMAIN senders :
        /\ senders[k].event.type = "assignment_email"
        /\ senders[k].event.taskId = t
        /\ senders[k].statusCode = 200

C8_NoSendAfterConfirmed ==
    [][\A e \in DirectSenderEvents :
          Confirmed(e.taskId) =>
              Cardinality(SendsOfTask(e.taskId))' = Cardinality(SendsOfTask(e.taskId))]_vars

(***************************************************************************)
(* C9: for a Task whose required capabilities no roster entry holds, the   *)
(* stored Decision has no assignee and confidence 0, and no assignment     *)
(* notification is queued.                                                 *)
(***************************************************************************)
C9_NoCandidateNoAssignment ==
    \A j \in DOMAIN runs :
        ( /\ runs[j].event.type = "email_received"
          /\ ~Qualified(runs[j].event.skillsRequired) )
        => /\ \A i \in DecisionsOfTask(runs[j].task.id) :
                /\ decisions[i].assignedTo \in {Undefined, "none"}
                /\ decisions[i].confidence = 0
           /\ \A e \in senderQueue :
                e.taskId = runs[j].task.id => e.type # "assignment_email"

(***************************************************************************)
(* C10: an event of unknown type or with a malformed payload (email,       *)
(* taskRequest or message missing) ends with the failure response and      *)
(* leaves no Task, no Decision and no queued notification.                 *)
(***************************************************************************)
Invalid(e) ==
    \/ e.type \notin {"email_received", "manual_task", "health_check"}
    \/ /\ e.type = "email_received"
       /\ ~(e.hasData /\ e.hasEmail /\ e.hasTaskRequest /\ e.hasMessage)

C10_InvalidEventNoEffect ==
    \A j \in DOMAIN runs :
        Invalid(runs[j].event) =>
            /\ runs[j].pc = "done" => runs[j].statusCode = 500
            /\ runs[j].task.id \notin DOMAIN tasks
            /\ DecisionsOfTask(runs[j].task.id) = {}
            /\ \A e \in senderQueue : e.taskId # runs[j].task.id

(***************************************************************************)
(* C11: the assignee of a stored Decision and of its Task is the           *)
(* optimizer's primary recommendation, or else the Decision's rationale    *)
(* records that the text generator overrode the recommendation.            *)
(***************************************************************************)
\* The primary recommendation run j was given.
Recommended(j) ==
    getSchedulerRecommendation(runs[j].task, getTeamDataFromSheets).assignment.assignee

\* The rationale texts that carry a note of an override, for the generator's
\* text of any assignee.
OverrideRationales ==
    {ClaudeRationale(a) \o " (overrides the recommendation of " \o b \o ")" :
        a \in ClaudeAssignees, b \in ClaudeAssignees}

C11_OverrideIsRecorded ==
    \A j \in DOMAIN runs : \A i \in DecisionsOfTask(runs[j].task.id) :
        /\ decisions[i].assignedTo = tasks[runs[j].task.id].assignedTo
        /\ \/ decisions[i].assignedTo = Recommended(j)
           \/ decisions[i].rationale \in OverrideRationales

(***************************************************************************)
(* C12: when the dispatch fails in transport (the sender Lambda cannot be  *)
(* invoked), the Task stays assigned and is marked undelivered in the      *)
(* store.                                                                  *)
(***************************************************************************)
\* Is the stored Task t flagged as undelivered?  The row holds the fields the
\* orchestrator wrote.
MarkedUndelivered(t) ==
    /\ "undelivered" \in DOMAIN tasks[t]
    /\ tasks[t].undelivered

\* The runs whose invocation of the email sender threw.
DispatchFailed(j) == runs[j].failedAt = "dispatch"

C12_DispatchFailureMarksUndelivered ==
    \A j \in DOMAIN runs :
        DispatchFailed(j) =>
            /\ runs[j].task.id \in DOMAIN tasks
            /\ tasks[runs[j].task.id].status = "assigned"
            /\ MarkedUndelivered(runs[j].task.id)

(***************************************************************************)
(* C17: no run returns success for a Task that reached assigned without    *)
(* having queued a notification for it (or having reported the failure).   *)
(***************************************************************************)
\* The sender events queued for Task t.
QueuedFor(t) == {e \in senderQueue : e.taskId = t}

\* Run j returned success and its Task is stored as assigned.
SucceededAssigned(j) ==
    /\ runs[j].event.type = "email_received"
    /\ runs[j].pc = "done"
    /\ runs[j].statusCode = 200
    /\ runs[j].task.id \in DOMAIN tasks
    /\ tasks[runs[j].task.id].status = "assigned"

C17_SuccessMeansQueued ==
    \A j \in DOMAIN runs :
        SucceededAssigned(j) => QueuedFor(runs[j].task.id) # {}

(***************************************************************************)
(* C13: when the optimizer fails on its first two attempts and would       *)
(* succeed on the third, the run completes successfully with the Task      *)
(* assigned and exactly one Decision stored.                               *)
(***************************************************************************)
\* Run j has returned and no call other than the optimizer's failed in it.
EndedWithoutOtherFailure(j) ==
    /\ runs[j].pc = "done"
    /\ runs[j].failedAt \notin OrchestratorCalls

Succeeded(j) ==
    /\ runs[j].event.type = "email_received"
    /\ runs[j].pc = "done"
    /\ runs[j].statusCode = 200

OneDecisionForSucceeded ==
    \A j \in DOMAIN runs :
        Succeeded(j) =>
            /\ runs[j].task.id \in DOMAIN tasks
            /\ tasks[runs[j].task.id].status = "assigned"
            /\ Cardinality(DecisionsOfTask(runs[j].task.id)) = 1
            /\ \A i \in DecisionsOfTask(runs[j].task.id) :
                  decisions[i].assignedTo = tasks[runs[j].task.id].assignedTo

DecisionsKept ==
    \A i \in DOMAIN decisions :
        /\ i \in DOMAIN decisions'
        /\ decisions'[i] = decisions[i]

C15_OneDecisionPerSuccess == []OneDecisionForSucceeded /\ [][DecisionsKept]_vars

\* A run has returned success with its one Decision, and another run has
\* stored a Decision after it.
C15_Witness ==
    \E j \in DOMAIN runs :
        /\ Succeeded(j)
        /\ Len(decisions) = 2
        /\ DecisionsOfTask(runs[j].task.id) = {1}

(***************************************************************************)
(* C16: a request for which exactly one roster entry qualifies and is      *)
(* available goes through the pipeline to a Task assigned to that entry,   *)
(* one Decision, and one send whose primary recipient is the entry's       *)
(* address and whose cc list is exactly the requester's address.           *)
(***************************************************************************)
\* The roster entries that hold every required capability and are available.
Candidates(skillsRequired) ==
    {i \in DOMAIN getTeamDataFromSheets :
        /\ skillsRequired \subseteq getTeamDataFromSheets[i].skills
        /\ getTeamDataFromSheets[i].availability = "available"}

\* Message m went through the pipeline once, without a failure, and the text
\* generator named the assignee the scheduler recommended.
WentThroughOnce(m) ==
    /\ Len(receivers) = 1 /\ receivers[1].records = <<m>>
    /\ Len(runs) = 1 /\ Len(senders) <= 1
    /\ Quiescent
    /\ faults = 0
    /\ runs[1].assignmentDecision.assignee = Recommended(1)

C16_SoleCandidateIsAssignedAndNotified ==
    \A m \in MessageIds :
        \A c \in Candidates(InboundEmails[m].skillsRequired) :
            ( /\ Candidates(InboundEmails[m].skillsRequired) = {c}
              /\ WentThroughOnce(m) )
            => /\ runs[1].task.id \in DOMAIN tasks
               /\ tasks[runs[1].task.id].status = "assigned"
               /\ tasks[runs[1].task.id].assignedTo = getTeamDataFromSheets[c].name
               /\ Cardinality(DecisionsFor(m)) = 1
               /\ Cardinality(SendsFor(m)) = 1
               /\ \A i \in SendsFor(m) :
                     /\ sent[i].assigneeEmail = getTeamDataFromSheets[c].email
                     /\ sent[i].ccEmails = <<InboundEmails[m].from>>

(***************************************************************************)
(* C18: every invocation of the orchestrator's handler eventually returns, *)
(* even when a collaborator never responds.                                *)
(***************************************************************************)
C18_EveryInvocationReturns ==
    \A j \in 1..MaxRuns :
        (j \in DOMAIN runs) ~> (j \in DOMAIN runs /\ runs[j].pc = "done")

(***************************************************************************)
(* C20: the receiver stores the incoming Message before it invokes the     *)
(* orchestrator for that record, so the Message is in the store when the   *)
(* run's buildMemoryContext reads it; and when storing the Message fails,  *)
(* the orchestrator is not invoked for that record.                        *)
(***************************************************************************)
\* The number of records for which receiver invocation rcv has invoked the
\* orchestrator: all of them when it returned 200, otherwise those before the
\* record it is at or failed at.
InvokedBy(rcv) ==
    IF rcv.pc = "done" /\ rcv.statusCode = 200
    THEN Len(rcv.records)
    ELSE rcv.index - 1

RECURSIVE InvokedByFirst(_)
InvokedByFirst(n) ==
    IF n = 0 THEN 0 ELSE InvokedByFirst(n - 1) + InvokedBy(receivers[n])

\* Does the run still hold the MemoryContext it read?
HoldsMemoryContext(run) == run.pc \in {"storePending", "claude"}

C20_MessageStoredBeforeInvoke ==
    /\ \A e \in BagToSet(orchQueue) : e.messageId \in DOMAIN messages
    /\ \A j \in DOMAIN runs :
          /\ runs[j].event.messageId \in DOMAIN messages
          /\ HoldsMemoryContext(runs[j]) =>
                runs[j].event.messageId \in runs[j].memoryContext.recentMessages
    /\ BagCardinality(orchQueue) + Len(runs) = InvokedByFirst(Len(receivers))

\* A run reads its own Message in its MemoryContext, and a receiver whose
\* storeMessage failed has returned 500.
C20_Witness ==
    /\ \E j \in DOMAIN runs :
          /\ HoldsMemoryContext(runs[j])
          /\ runs[j].event.messageId \in runs[j].memoryContext.recentMessages
    /\ \E i \in DOMAIN receivers : receivers[i].failedAt = "storeMessage"

(***************************************************************************)
(* C21: the MemoryContext given to the text generator is the one read at   *)
(* the start of the run, before the run's own Task was stored: it does not *)
(* hold the Task of the run, and it is not read again after the pending    *)
(* Task was written.                                                       *)
(***************************************************************************)
\* Run j is at the call of the text generator.
AtTextGenerator(j) == runs[j].pc = "claude"

SnapshotExcludesOwnTask ==
    \A j \in DOMAIN runs :
        HoldsMemoryContext(runs[j]) =>
            runs[j].task.id \notin runs[j].memoryContext.activeTasks

\* The step that writes the pending Task leaves the run's MemoryContext as it
\* was read.
SnapshotNotRebuilt ==
    \A j \in DOMAIN runs :
        ( /\ runs[j].pc = "storePending"
          /\ runs'[j].pc = "claude" )
        => runs'[j].memoryContext = runs[j].memoryContext

C21_GeneratorGetsInitialSnapshot ==
    []SnapshotExcludesOwnTask /\ [][SnapshotNotRebuilt]_vars

\* A run is at the call of the text generator with its pending Task stored,
\* and its MemoryContext holds another Task but not its own.
C21_Witness ==
    \E j \in DOMAIN runs :
        /\ AtTextGenerator(j)
        /\ runs[j].task.id \in DOMAIN tasks
        /\ runs[j].memoryContext.activeTasks # {}
        /\ runs[j].task.id \notin runs[j].memoryContext.activeTasks

(***************************************************************************)
(* C22: a run that has stored its Decision queues an assignment            *)
(* notification exactly when the assignee named by the text generator is   *)
(* the name of a roster entry; when it names none, the Task is written as  *)
(* assigned, the Decision is stored, nothing is queued and the run returns *)
(* 200.                                                                    *)
(***************************************************************************)
\* Is the assignee of run j the name of a roster entry?
InRoster(j) ==
    \E i \in DOMAIN getTeamDataFromSheets :
        getTeamDataFromSheets[i].name = runs[j].assignmentDecision.assignee

\* Run j has returned after it came to the decision whether to dispatch.
ReturnedPastDecision(j) ==
    /\ runs[j].event.type = "email_received"
    /\ runs[j].pc = "done"
    /\ "storeDecision" \in runs[j].steps

\* The statement as it reads: queued if and only if the name matches.
C22_QueuedIffInRoster ==
    \A j \in DOMAIN runs :
        ReturnedPastDecision(j) =>
            /\ QueuedFor(runs[j].task.id) # {} <=> InRoster(j)
            /\ ~InRoster(j) =>
                  /\ tasks[runs[j].task.id].status = "assigned"
                  /\ Cardinality(DecisionsOfTask(runs[j].task.id)) = 1
                  /\ runs[j].statusCode = 200

\* The statement with the failed invocation of the sender told apart: a
\* notification is queued only for a name in the roster, and for such a name
\* it is queued unless the invocation of the sender threw, in which case the
\* run returned 500.
C22_QueuedOnlyIfInRoster ==
    \A j \in DOMAIN runs :
        /\ QueuedFor(runs[j].task.id) # {} =>
              /\ InRoster(j)
              /\ \A e \in QueuedFor(runs[j].task.id) :
                    \E i \in DOMAIN getTeamDataFromSheets :
                        /\ getTeamDataFromSheets[i].name =
                              runs[j].assignmentDecision.assignee
                        /\ e.to = <<getTeamDataFromSheets[i].email,
                                    runs[j].event.from>>
        /\ ReturnedPastDecision(j) =>
              /\ InRoster(j) =>
                    \/ /\ QueuedFor(runs[j].task.id) # {}
                       /\ runs[j].statusCode = 200
                    \/ /\ QueuedFor(runs[j].task.id) = {}
                       /\ runs[j].statusCode = 500
                       /\ runs[j].failedAt = "dispatch"
              /\ ~InRoster(j) =>
                    /\ tasks[runs[j].task.id].status = "assigned"
                    /\ Cardinality(DecisionsOfTask(runs[j].task.id)) = 1
                    /\ QueuedFor(runs[j].task.id) = {}
                    /\ runs[j].statusCode = 200

\* One run has returned 200 for a name outside the roster with nothing
\* queued, another has queued the notification for a name in the roster.
C22_Witness ==
    \E j, k \in DOMAIN runs :
        /\ ReturnedPastDecision(j) /\ ~InRoster(j)
        /\ runs[j].statusCode = 200 /\ QueuedFor(runs[j].task.id) = {}
        /\ ReturnedPastDecision(k) /\ InRoster(k)
        /\ QueuedFor(runs[k].task.id) # {}

(***************************************************************************)
(* C26: an orchestrator event of type manual_task or health_check leaves   *)
(* the Tasks, the Decisions, the Messages and the outbound queue as they   *)
(* were, and its run returns 200 (for health_check: unless reading the     *)
(* store's statistics fails, and then 500).                                *)
(***************************************************************************)
QueryTypes == {"manual_task", "health_check"}

\* Run j handled a manual_task or health_check event and has returned.
QueryReturned(j) ==
    /\ runs[j].event.type \in QueryTypes
    /\ runs[j].pc = "done"

\* The statement as it reads: such a run returns 200.
C26_QueriesReturn200 ==
    \A j \in DOMAIN runs : QueryReturned(j) => runs[j].statusCode = 200

\* A step of a run of one of these events changes nothing but the run.
QueriesChangeNothing ==
    \A j \in DOMAIN runs' :
        ( /\ j \notin DOMAIN runs \/ runs'[j] # runs[j]
          /\ runs'[j].event.type \in QueryTypes )
        => UNCHANGED <<tasks, decisions, messages, senderQueue>>

QueriesReturn200UnlessStatsFail ==
    \A j \in DOMAIN runs :
        QueryReturned(j) =>
            /\ runs[j].task = NoTask
            /\ \/ runs[j].statusCode = 200 /\ runs[j].failedAt = "none"
               \/ /\ runs[j].statusCode = 500
                  /\ runs[j].event.type = "health_check"
                  /\ runs[j].failedAt = "stats"

C26_QueriesHaveNoEffect ==
    []QueriesReturn200UnlessStatsFail /\ [][QueriesChangeNothing]_vars

\* A health_check run has returned 200 while a Task, stored by another run,
\* is in the store.
C26_Witness ==
    \E j \in DOMAIN runs :
        /\ runs[j].event.type = "health_check"
        /\ runs[j].pc = "done" /\ runs[j].statusCode = 200
        /\ tasks # <<>>

(***************************************************************************)
(* C24: the email sender stores an outgoing Message only after the send    *)
(* for that event succeeded, one Message per successful send; when the     *)
(* send fails or the event type is unknown nothing is stored; when the     *)
(* send succeeded and the store write fails, 500 is returned although the  *)
(* email was sent.                                                         *)
(***************************************************************************)
\* The outgoing Messages in the store.
Outgoing == {m \in DOMAIN messages : messages[m].type = "outgoing"}

\* Has sender invocation i stored its outgoing Message?
StoredOutgoing(i) == uuidv4("email-sender", i) \in Outgoing

\* The sender invocations whose send was accepted by the transport.
SendSucceeded ==
    {i \in DOMAIN senders :
        \/ senders[i].pc = "storeMessage"
        \/ senders[i].pc = "done" /\ senders[i].statusCode = 200
        \/ senders[i].failedAt = "storeMessage"}

C24_StoredOnlyAfterSend ==
    /\ Cardinality(Outgoing) <= Len(sent)
    /\ Cardinality(SendSucceeded) = Len(sent)
    /\ \A i \in DOMAIN senders :
          /\ StoredOutgoing(i) <=>
                senders[i].pc = "done" /\ senders[i].statusCode = 200
          /\ StoredOutgoing(i) => i \in SendSucceeded
          /\ senders[i].failedAt \in {"send", "type"} =>
                /\ ~StoredOutgoing(i)
                /\ senders[i].statusCode = 500
          /\ senders[i].failedAt = "storeMessage" =>
                /\ senders[i].statusCode = 500
                /\ ~StoredOutgoing(i)
                /\ Len(sent) >= 1

\* One invocation has sent and stored its Message; another has sent, failed
\* to store, and returned 500.
C24_Witness ==
    \E i, k \in DOMAIN senders :
        /\ StoredOutgoing(i) /\ senders[i].statusCode = 200
        /\ senders[k].failedAt = "storeMessage" /\ senders[k].statusCode = 500
        /\ Len(sent) = 2

(***************************************************************************)
(* C25: the receiver handles the records of one SES event in order, one at *)
(* a time; the first record that fails ends the invocation with 500: the   *)
(* records after it are neither stored nor forwarded, and the Messages     *)
(* stored and the invocations made for the records before it are kept.     *)
(***************************************************************************)
\* The first n records of receiver invocation rcv.
FirstRecords(rcv, n) == SubSeq(rcv.records, 1, n)

RECURSIVE ForwardedByFirst(_)
ForwardedByFirst(n) ==
    IF n = 0 THEN 0 ELSE ForwardedByFirst(n - 1) + Len(receivers[n].invoked)

RecordsInOrder ==
    /\ \A i \in DOMAIN receivers :
          LET rcv == receivers[i]
          IN  /\ rcv.stored = FirstRecords(rcv, Len(rcv.stored))
              /\ rcv.invoked = FirstRecords(rcv, Len(rcv.invoked))
              /\ Len(rcv.invoked) <= Len(rcv.stored)
              /\ Len(rcv.stored) <= Len(rcv.invoked) + 1
              /\ \A k \in DOMAIN rcv.stored : rcv.stored[k] \in DOMAIN messages
              /\ rcv.failedAt # "none" =>
                    /\ rcv.pc = "done" /\ rcv.statusCode = 500
                    /\ rcv.invoked = FirstRecords(rcv, rcv.index - 1)
                    /\ rcv.stored = FirstRecords(rcv,
                          IF rcv.failedAt = "invoke" THEN rcv.index
                                                     ELSE rcv.index - 1)
              /\ rcv.statusCode = 200 =>
                    /\ rcv.stored = rcv.records
                    /\ rcv.invoked = rcv.records
    /\ BagCardinality(orchQueue) + Len(runs) = ForwardedByFirst(Len(receivers))

\* An invocation that has returned does nothing more.
ReturnedReceiverStops ==
    \A i \in DOMAIN receivers :
        receivers[i].pc = "done" => receivers'[i] = receivers[i]

C25_FirstFailureStopsReceiver ==
    []RecordsInOrder /\ [][ReturnedReceiverStops]_vars

\* An invocation with two records has returned 500 at its second record: the
\* first is stored and forwarded, the second is neither.
C25_Witness ==
    \E i \in DOMAIN receivers :
        /\ receivers[i].records = <<"m1", "m2">>
        /\ receivers[i].statusCode = 500
        /\ receivers[i].failedAt = "storeMessage"
        /\ receivers[i].invoked = <<"m1">>
        /\ "m1" \in DOMAIN messages
        /\ "m2" \notin DOMAIN messages

(***************************************************************************)
(* C23: none of the three handlers lets an error out to its invoker: every *)
(* invocation that has ended has a response, with statusCode 200 or 500,   *)
(* and every invocation in which something failed has ended with 500.  So  *)
(* no invocation ends as a failed invocation, the one event on which an    *)
(* asynchronous invoker retries.                                           *)
(***************************************************************************)
\* An invocation record of any handler: ended with a response, and with 500
\* when something failed in it.
Responded(inv) ==
    /\ inv.pc = "done" => inv.statusCode \in {200, 500}
    /\ inv.failedAt # "none" => inv.pc = "done" /\ inv.statusCode = 500

C23_EveryFailureIsAResponse ==
    /\ \A i \in DOMAIN receivers : Responded(receivers[i])
    /\ \A i \in DOMAIN runs : Responded(runs[i])
    /\ \A i \in DOMAIN senders : Responded(senders[i])

\* An orchestrator run has failed on its event and a receiver on a call, and
\* both have returned 500.
C23_Witness ==
    /\ \E i \in DOMAIN runs :
          runs[i].failedAt = "entry" /\ runs[i].statusCode = 500
    /\ \E i \in DOMAIN receivers :
          receivers[i].failedAt = "invoke" /\ receivers[i].statusCode = 500

====
